---- MODULE Spec2Model ----
(***************************************************************************)
(* Model of the image stacking plugin (src/main.ts).                       *)
(*                                                                         *)
(* Text is a sequence of one-character strings, so that splitting,         *)
(* trimming, substring search and the three regular expressions of         *)
(* handleStack are computed character by character.                        *)
(***************************************************************************)
EXTENDS Integers, Sequences, FiniteSets, TLC

VARIABLES
    fileText,      \* the text of the file held by the vault
    target,        \* the element under the last wheel event: src, class list, filesource
    prevText,      \* the text the vault handed to the last transform
    searchString,  \* the key the last transform searched for
    outcome,       \* how the last handleStack ended
    isKeyHeldDown,   \* the plugin's flag: the configured key is taken to be held
    scrollDisabled,  \* per window: the preventDefault wheel listener is registered
    settings,        \* modifierKey, stepSize, initialSize, resizeInCanvas
    activeView,      \* the type of the workspace's active view
    focused,         \* the window that has the keyboard focus
    nodeWidth,       \* the width of the canvas node behind the content blocker
    elements,        \* the DOM elements a wheel event can hit, with their attributes
    otherText,       \* the text of a second file of the vault
    prevOther,       \* the second file's text before the last handleStack step
    pending,         \* the handleStack calls waiting for vault.process
    applied,         \* the transforms the vault has written, in the order it ran them
    retried,         \* the two results of the last transform, when the vault ran it twice
    lastEvent,       \* the DOM event handled by the last step
    loaded           \* the plugin's listeners are registered: onunload has not run

\* what the plugin and its environment hold besides the file under the cursor
pluginVars == <<isKeyHeldDown, scrollDisabled, settings, activeView, focused, nodeWidth,
                elements, otherText, prevOther, pending, applied, retried, lastEvent, loaded>>

vars == <<fileText, target, prevText, searchString, outcome, isKeyHeldDown, scrollDisabled,
          settings, activeView, focused, nodeWidth, elements, otherText, prevOther, pending,
          applied, retried, lastEvent, loaded>>

(***************************************************************************)
(* Values that are not text.                                               *)
(***************************************************************************)
\* getNamedItem(..) of an attribute the element does not carry
Null == <<"null">>
\* reading .textContent of null
TypeError == <<"TypeError">>

(***************************************************************************)
(* String primitives of the JavaScript runtime.                            *)
(***************************************************************************)
\* the characters String.prototype.trim and \s treat as white space: the
\* WhiteSpace and LineTerminator productions of ECMAScript.  After the five
\* with an escape comes the vertical tab (U+000B) as itself; the characters
\* outside ASCII are written by code point
Whitespace == {" ", "\t", "\n", "\r", "\f", "",
               "U+00A0", "U+1680", "U+2000", "U+2001", "U+2002", "U+2003", "U+2004", "U+2005",
               "U+2006", "U+2007", "U+2008", "U+2009", "U+200A", "U+2028", "U+2029", "U+202F",
               "U+205F", "U+3000", "U+FEFF"}

\* \d
Digit == {"0", "1", "2", "3", "4", "5", "6", "7", "8", "9"}

Min(S) == CHOOSE x \in S : \A y \in S : x <= y

Max(S) == CHOOSE x \in S : \A y \in S : x >= y

\* s.slice(from - 1): the characters of s from position from (1-based) on
Slice(s, from) == SubSeq(s, from, Len(s))

\* position of the first c in s at or after from, 0 when there is none
FirstIndexOf(s, c, from) ==
    LET hits == {i \in from..Len(s) : s[i] = c}
    IN  IF hits = {} THEN 0 ELSE Min(hits)

\* position of the last c in s, 0 when there is none (lastIndexOf(c) + 1)
LastIndexOf(s, c) ==
    LET hits == {i \in 1..Len(s) : s[i] = c}
    IN  IF hits = {} THEN 0 ELSE Max(hits)

\* s.startsWith(p)
StartsWith(s, p) == Len(s) >= Len(p) /\ SubSeq(s, 1, Len(p)) = p

\* s.includes(k) / s.contains(k): k occurs in s as a substring
Includes(s, k) == \E i \in 0..(Len(s) - Len(k)) : SubSeq(s, i + 1, i + Len(k)) = k

AllWhitespace(s) == \A i \in 1..Len(s) : s[i] \in Whitespace

\* s.trim()
Trim(s) ==
    LET solid == {i \in 1..Len(s) : s[i] \notin Whitespace}
    IN  IF solid = {} THEN <<>> ELSE SubSeq(s, Min(solid), Max(solid))

\* s.split(/\r?\n/)
RECURSIVE Split(_)
Split(s) ==
    LET n == FirstIndexOf(s, "\n", 1)
    IN  IF n = 0 THEN <<s>>
        ELSE LET cut == IF n > 1 /\ s[n - 1] = "\r" THEN n - 2 ELSE n - 1
             IN  <<SubSeq(s, 1, cut)>> \o Split(Slice(s, n + 1))

\* parts.join(sep)
RECURSIVE Join(_, _)
Join(parts, sep) ==
    IF Len(parts) = 0 THEN <<>>
    ELSE IF Len(parts) = 1 THEN parts[1]
    ELSE parts[1] \o sep \o Join(Tail(parts), sep)

(***************************************************************************)
(* The regular expressions of handleStack.                                 *)
(***************************************************************************)
\* /^---\s*([\s\S]*?)\s*---\n*/ : the length of match[0], 0 when the text does
\* not match.  The text opens with "---"; the lazy group stops at the first
\* later "---"; \n* then takes every line feed that follows.
FrontmatterRegex(fileText_) ==
    LET dashes == <<"-", "-", "-">>
        closing == {i \in 4..(Len(fileText_) - 2) : SubSeq(fileText_, i, i + 2) = dashes}
    IN  IF ~StartsWith(fileText_, dashes) \/ closing = {} THEN 0
        ELSE LET close == Min(closing) + 2
                 other == {i \in (close + 1)..Len(fileText_) : fileText_[i] # "\n"}
             IN  IF other = {} THEN Len(fileText_) ELSE Min(other) - 1

\* /^!\[\[[^\]]+\]\](\|\d+)?\s*$/
ObsidianImagePattern(t) ==
    /\ StartsWith(t, <<"!", "[", "[">>)
    /\ LET p == FirstIndexOf(t, "]", 4)
       IN  /\ p >= 5
           /\ p + 1 <= Len(t)
           /\ t[p + 1] = "]"
           /\ LET rest == Slice(t, p + 2)
              IN  \/ AllWhitespace(rest)
                  \/ /\ Len(rest) >= 2
                     /\ rest[1] = "|"
                     /\ \E d \in 2..Len(rest) :
                            /\ \A i \in 2..d : rest[i] \in Digit
                            /\ AllWhitespace(Slice(rest, d + 1))

\* /^!\[[^\]]*]\([^\)]+\)\s*$/
MarkdownImagePattern(t) ==
    /\ StartsWith(t, <<"!", "[">>)
    /\ LET p == FirstIndexOf(t, "]", 3)
       IN  /\ p # 0
           /\ p + 1 <= Len(t)
           /\ t[p + 1] = "("
           /\ LET q == FirstIndexOf(t, ")", p + 2)
              IN  /\ q >= p + 3
                  /\ AllWhitespace(Slice(t, q + 1))

\* isImageLine
IsImageLine(line) ==
    LET trimmed == Trim(line)
    IN  ObsidianImagePattern(trimmed) \/ MarkdownImagePattern(trimmed)

(***************************************************************************)
(* The search key.                                                         *)
(***************************************************************************)
\* Util.getLocalImageNameFromUri: the locator without its query, then the
\* part after the last "/"
GetLocalImageNameFromUri(imageUri) ==
    LET q == FirstIndexOf(imageUri, "?", 1)
        path == IF q = 0 THEN imageUri ELSE SubSeq(imageUri, 1, q - 1)
    IN  Slice(path, LastIndexOf(path, "/") + 1)

\* target.classList.value.match("excalidraw-svg.*")
IsExcalidraw(cls) ==
    Includes(cls, <<"e", "x", "c", "a", "l", "i", "d", "r", "a", "w", "-", "s", "v", "g">>)

\* getSearchStringForImage testing the excalidraw class before the locator
GetSearchStringExcalidrawFirst(imageUri, target_) ==
    IF IsExcalidraw(target_.cls)
    THEN IF target_.filesource = Null THEN TypeError
         ELSE LET src == target_.filesource
                  imageName == SubSeq(src, 1, Len(src) - 3)
              IN  Slice(imageName, LastIndexOf(imageName, "/") + 1)
    ELSE IF Includes(imageUri, <<"h", "t", "t", "p">>)
            \/ StartsWith(imageUri, <<"d", "a", "t", "a", ":", "i", "m", "a", "g", "e", "/">>)
    THEN imageUri
    ELSE IF Includes(imageUri, <<"a", "p", "p", ":", "/", "/">>)
    THEN GetLocalImageNameFromUri(imageUri)
    ELSE imageUri

\* getSearchStringForImage
GetSearchStringForImage(imageUri, target_) ==
    IF Includes(imageUri, <<"h", "t", "t", "p">>)
       \/ StartsWith(imageUri, <<"d", "a", "t", "a", ":", "i", "m", "a", "g", "e", "/">>)
    THEN imageUri
    ELSE IF IsExcalidraw(target_.cls)
    THEN IF target_.filesource = Null THEN TypeError
         ELSE LET src == target_.filesource
                  imageName == SubSeq(src, 1, Len(src) - 3)
              IN  Slice(imageName, LastIndexOf(imageName, "/") + 1)
    ELSE IF Includes(imageUri, <<"a", "p", "p", ":", "/", "/">>)
    THEN GetLocalImageNameFromUri(imageUri)
    ELSE imageUri

(***************************************************************************)
(* The transform handleStack hands to vault.process.                       *)
(***************************************************************************)
\* match[0], or "" when the text has no frontmatter
Frontmatter(fileText_) == SubSeq(fileText_, 1, FrontmatterRegex(fileText_))

\* fileText.slice(frontmatter.length)
Body(fileText_) == Slice(fileText_, FrontmatterRegex(fileText_) + 1)

\* FindIndex without the image-line test
FindIndexAnyLine(lines, key) ==
    LET hits == {i \in 0..(Len(lines) - 1) : Includes(lines[i + 1], key)}
    IN  IF hits = {} THEN -1 ELSE Min(hits)

\* FindIndex returning the last qualifying line
FindIndexLast(lines, key) ==
    LET hits == {i \in 0..(Len(lines) - 1) :
                    Includes(lines[i + 1], key) /\ IsImageLine(lines[i + 1])}
    IN  IF hits = {} THEN -1 ELSE Max(hits)

\* lines.findIndex(line => line.includes(searchString) && isImageLine(line)),
\* 0-based, -1 when no line qualifies
FindIndex(lines, key) ==
    LET hits == {i \in 0..(Len(lines) - 1) :
                    Includes(lines[i + 1], key) /\ IsImageLine(lines[i + 1])}
    IN  IF hits = {} THEN -1 ELSE Min(hits)

\* while (start > 0 && isImageLine(lines[start - 1])) start--
RECURSIVE ExpandStart(_, _)
ExpandStart(lines, start) ==
    IF start > 0 /\ IsImageLine(lines[start])
    THEN ExpandStart(lines, start - 1)
    ELSE start

\* ExpandEnd of the lenient variant: a line without letters or digits is absorbed
RECURSIVE ExpandEndLenient(_, _)
ExpandEndLenient(lines, end) ==
    IF end < Len(lines) - 1
       /\ (IsImageLine(lines[end + 2])
             \/ \A i \in 1..Len(lines[end + 2]) :
                    lines[end + 2][i] \in Whitespace \cup {"-"})
    THEN ExpandEndLenient(lines, end + 1)
    ELSE end

\* while (end < lines.length - 1 && isImageLine(lines[end + 1])) end++
RECURSIVE ExpandEnd(_, _)
ExpandEnd(lines, end) ==
    IF end < Len(lines) - 1 /\ IsImageLine(lines[end + 2])
    THEN ExpandEnd(lines, end + 1)
    ELSE end

\* Images pushing the lines as they are, untrimmed
RECURSIVE ImagesUntrimmed(_, _, _)
ImagesUntrimmed(lines, i, end) ==
    IF i > end THEN <<>>
    ELSE (IF Len(Trim(lines[i + 1])) > 0 THEN <<lines[i + 1]>> ELSE <<>>)
            \o ImagesUntrimmed(lines, i + 1, end)

\* Images that starts one line late
RECURSIVE ImagesSkipFirst(_, _, _)
ImagesSkipFirst(lines, i, end) ==
    IF i + 1 > end THEN <<>>
    ELSE <<Trim(lines[i + 2])>> \o ImagesSkipFirst(lines, i + 1, end)

\* for (i = start; i <= end; i++) push the non-empty trimmed lines
RECURSIVE Images(_, _, _)
Images(lines, i, end) ==
    IF i > end THEN <<>>
    ELSE LET trimmed == Trim(lines[i + 1])
         IN  (IF Len(trimmed) > 0 THEN <<trimmed>> ELSE <<>>) \o Images(lines, i + 1, end)

\* Splice deleting one line too few
SpliceOneShort(lines, start, deleteCount, item) ==
    SubSeq(lines, 1, start) \o <<item>> \o Slice(lines, start + deleteCount)

\* lines.splice(start, deleteCount, item)
Splice(lines, start, deleteCount, item) ==
    SubSeq(lines, 1, start) \o <<item>> \o Slice(lines, start + deleteCount + 1)

\* StackTransform without the frontmatter guard: the whole text is the body
StackTransformNoGuard(fileText_, key) ==
    LET lines == Split(fileText_)
        index == FindIndex(lines, key)
    IN  IF index = -1 THEN fileText_
        ELSE LET start == ExpandStart(lines, index)
                 end == ExpandEnd(lines, index)
                 images == Images(lines, start, end)
                 spliced == Splice(lines, start, end - start + 1, Join(images, <<" ">>))
             IN  Join(spliced, <<"\n">>)

\* the callback of vault.process, given the resolved search string
StackTransform(fileText_, key) ==
    LET frontmatter == Frontmatter(fileText_)
        lines == Split(Body(fileText_))
        index == FindIndex(lines, key)
    IN  IF index = -1 THEN fileText_
        ELSE LET start == ExpandStart(lines, index)
                 end == ExpandEnd(lines, index)
                 images == Images(lines, start, end)
                 spliced == Splice(lines, start, end - start + 1, Join(images, <<" ">>))
             IN  frontmatter \o Join(spliced, <<"\n">>)

(***************************************************************************)
(* Documents and wheel targets the model explores.                         *)
(***************************************************************************)
\* most lines of a body
MaxLines == 4

\* an embed, the same embed behind a tab and followed by a vertical tab
\* (U+000B), a markdown image, prose that names the embed, a lone carriage
\* return, a punctuation-only line
LinePool == {
    <<"!", "[", "[", "a", "]", "]">>,
    <<"\t", "!", "[", "[", "a", "]", "]", "">>,
    <<"!", "[", "x", "]", "(", "b", ")">>,
    <<"x", " ", "!", "[", "[", "a", "]", "]">>,
    <<"\r">>,
    <<"-">>
}

LineBreaks == {<<"\n">>, <<"\r", "\n">>}

FrontmatterPool == {
    <<>>,
    <<"-", "-", "-", "\n", "!", "[", "[", "a", "]", "]", "\n", "!", "[", "x", "]", "(", "b", ")", "\n",
      "-", "-", "-", "\n">>
}

\* the bodies of at most MaxLines lines whose lines end with line break br
Bodies(br) == UNION {{Join(ls, br) : ls \in [1..n -> LinePool]} : n \in 1..MaxLines}

\* files without frontmatter, with LF or CRLF line breaks, and LF files with frontmatter
Documents ==
    UNION {Bodies(br) : br \in LineBreaks}
       \cup {fm \o b : fm \in FrontmatterPool \ {<<>>}, b \in Bodies(<<"\n">>)}

NoTarget == [src |-> Null, cls |-> <<>>, filesource |-> Null]

\* <img src="a">, <img src="">, and an excalidraw embed that carries no
\* filesource attribute
WheelTargets == {
    [src |-> <<"a">>, cls |-> <<>>, filesource |-> Null],
    [src |-> <<>>, cls |-> <<>>, filesource |-> Null],
    [src |-> <<"x">>,
     cls |-> <<"e", "x", "c", "a", "l", "i", "d", "r", "a", "w", "-", "s", "v", "g">>,
     filesource |-> Null]
}

(***************************************************************************)
(* The plugin after onload, and the workspace around it.                   *)
(***************************************************************************)
\* enum ModifierKey
ALT == "AltLeft"

CTRL == "ControlLeft"

SHIFT == "ShiftLeft"

ALT_RIGHT == "AltRight"

CTRL_RIGHT == "ControlRight"

SHIFT_RIGHT == "ShiftRight"

ModifierKey == {ALT, CTRL, SHIFT, ALT_RIGHT, CTRL_RIGHT, SHIFT_RIGHT}

DEFAULT_SETTINGS ==
    [modifierKey |-> ALT, stepSize |-> 25, initialSize |-> 500, resizeInCanvas |-> TRUE]

\* the windows registerEvents ran for: the main window and one pop-out window
Windows == {"main", "popout"}

\* the files of the vault
Files == {"F1", "F2"}

\* an image of a note, an image inside a canvas node's content, the content
\* blocker of a canvas node, an image that carries the blocker class without
\* being a node's blocker, a paragraph, an excalidraw embed of drawing c, and
\* an image without a src attribute
DomElements ==
    [img |-> [nodeName |-> "IMG", src |-> <<"a">>, cls |-> <<>>, filesource |-> Null,
              inCanvasNodeContent |-> FALSE, isContentBlockerEl |-> FALSE],
     nodeImg |-> [nodeName |-> "IMG", src |-> <<"a">>, cls |-> <<>>, filesource |-> Null,
                  inCanvasNodeContent |-> TRUE, isContentBlockerEl |-> FALSE],
     blocker |-> [nodeName |-> "DIV", src |-> Null,
                  cls |-> <<"c", "a", "n", "v", "a", "s", "-", "n", "o", "d", "e", "-", "c", "o", "n", "t", "e", "n", "t", "-", "b", "l", "o", "c", "k", "e", "r">>,
                  filesource |-> Null,
                  inCanvasNodeContent |-> FALSE, isContentBlockerEl |-> TRUE],
     blockerImg |-> [nodeName |-> "IMG", src |-> <<"a">>,
                     cls |-> <<"z", "o", "o", "m", " ", "c", "a", "n", "v", "a", "s", "-", "n", "o", "d", "e", "-", "c", "o", "n", "t", "e", "n", "t", "-", "b", "l", "o", "c", "k", "e", "r">>,
                     filesource |-> Null,
                     inCanvasNodeContent |-> FALSE, isContentBlockerEl |-> FALSE],
     p |-> [nodeName |-> "P", src |-> Null, cls |-> <<>>, filesource |-> Null,
            inCanvasNodeContent |-> FALSE, isContentBlockerEl |-> FALSE],
     svg |-> [nodeName |-> "IMG", src |-> <<"x">>,
              cls |-> <<"e", "x", "c", "a", "l", "i", "d", "r", "a", "w", "-", "s", "v", "g">>,
              filesource |-> <<"d", "/", "c", ".", "m", "d">>,
              inCanvasNodeContent |-> FALSE, isContentBlockerEl |-> FALSE],
     nosrc |-> [nodeName |-> "IMG", src |-> Null, cls |-> <<>>, filesource |-> Null,
                inCanvasNodeContent |-> FALSE, isContentBlockerEl |-> FALSE]]

\* the width the canvas node starts with
NodeWidths == {50}

\* the second file of the vault: ![[a]] and ![[e]] on two lines
OtherDocument == <<"!", "[", "[", "a", "]", "]", "\n", "!", "[", "[", "e", "]", "]">>

\* the last transform was run once
None == [state |-> "none"]

\* no DOM event has been handled by the last step
NoEvent == [type |-> "none"]

\* the fields of the plugin after onload, with the main window focused on a note
Loaded ==
    /\ isKeyHeldDown = FALSE
    /\ scrollDisabled = [w \in Windows |-> FALSE]
    /\ settings = DEFAULT_SETTINGS
    /\ activeView = "markdown"
    /\ focused = "main"
    /\ nodeWidth \in NodeWidths
    /\ elements = DomElements
    /\ otherText = OtherDocument
    /\ prevOther = otherText
    /\ pending = <<>>
    /\ applied = <<>>
    /\ retried = None
    /\ lastEvent = NoEvent
    /\ loaded = TRUE

(***************************************************************************)
(* The unstack transform: one line of references back to one per line.     *)
(***************************************************************************)
\* the white space a line starts with
LeadingWhitespace(line) ==
    LET solid == {i \in 1..Len(line) : line[i] \notin Whitespace}
    IN  IF solid = {} THEN line ELSE SubSeq(line, 1, Min(solid) - 1)

\* the number of digits of t from position from on
RECURSIVE DigitRun(_, _)
DigitRun(t, from) ==
    IF from <= Len(t) /\ t[from] \in Digit THEN 1 + DigitRun(t, from + 1) ELSE 0

\* the length of the reference t starts with: a wiki embed with its optional
\* size hint, an inline image, or else the characters up to the next white space
ReferenceEnd(t) ==
    LET p == FirstIndexOf(t, "]", 4)
        b == FirstIndexOf(t, "]", 3)
        q == FirstIndexOf(t, ")", b + 2)
        gaps == {i \in 1..Len(t) : t[i] \in Whitespace}
    IN  IF StartsWith(t, <<"!", "[", "[">>) /\ p >= 5 /\ p + 1 <= Len(t) /\ t[p + 1] = "]"
        THEN IF p + 2 <= Len(t) /\ t[p + 2] = "|" /\ DigitRun(t, p + 3) > 0
             THEN p + 2 + DigitRun(t, p + 3)
             ELSE p + 1
        ELSE IF StartsWith(t, <<"!", "[">>) /\ b # 0 /\ b + 1 <= Len(t) /\ t[b + 1] = "("
                /\ q >= b + 3
        THEN q
        ELSE IF gaps = {} THEN Len(t) ELSE Min(gaps) - 1

\* the references of a line, left to right
RECURSIVE ScanReferences(_)
ScanReferences(s) ==
    LET solid == {i \in 1..Len(s) : s[i] \notin Whitespace}
    IN  IF solid = {} THEN <<>>
        ELSE LET t == Slice(s, Min(solid))
                 n == ReferenceEnd(t)
             IN  <<SubSeq(t, 1, n)>> \o ScanReferences(Slice(t, n + 1))

\* one line per reference of line, each behind the given indentation
Unstack(line, indentation) ==
    LET refs == ScanReferences(line)
    IN  [i \in 1..Len(refs) |-> indentation \o refs[i]]

(***************************************************************************)
(* The resolver over every kind of wheel target.                           *)
(***************************************************************************)
SrcPool == {
    Null,
    <<>>,
    <<"a", ".", "p", "n", "g">>,
    <<"h", "t", "t", "p", "s", ":", "/", "/", "x", "/", "y", ".", "p", "n", "g">>,
    <<"a", "p", "p", ":", "/", "/", "v", "a", "u", "l", "t", "-", "i", "d", "/", "i", "m", "a",
      "g", "e", "s", "/", "c", "a", "t", ".", "p", "n", "g", "?", "e", "x", "t", "=", "p", "n",
      "g">>,
    <<"d", "a", "t", "a", ":", "i", "m", "a", "g", "e", "/", "p", "n", "g", ";", "b", "a", "s",
      "e", "6", "4", ",", "A", "A", "A", "A">>,
    <<"a", "p", "p", ":", "/", "/", "h", "t", "t", "p", "/", "b">>,
    <<"x", "/", "d", "a", "t", "a", ":", "i", "m", "a", "g", "e", "/", "b">>
}

ClassPool == {
    <<>>,
    <<"e", "x", "c", "a", "l", "i", "d", "r", "a", "w">>,
    <<"e", "x", "c", "a", "l", "i", "d", "r", "a", "w", "-", "s", "v", "g", "-", "e", "m", "b",
      "e", "d">>,
    <<"i", "n", "t", "e", "r", "n", "a", "l", "-", "e", "m", "b", "e", "d", " ", "e", "x", "c",
      "a", "l", "i", "d", "r", "a", "w", "-", "s", "v", "g">>
}

FilesourcePool == {
    Null,
    <<"m", "d">>,
    <<"a", ".", "m", "d">>,
    <<"d", "r", "a", "w", "i", "n", "g", "s", "/", "c", "a", "t", ".", "e", "x", "c", "a", "l",
      "i", "d", "r", "a", "w", ".", "m", "d">>
}

ResolverTargets ==
    {[src |-> u, cls |-> c, filesource |-> f] : u \in SrcPool, c \in ClassPool,
                                                 f \in FilesourcePool}

\* ![[a.png]] and ![[cat.png]] on two lines
ResolverDocument ==
    <<"!", "[", "[", "a", ".", "p", "n", "g", "]", "]", "\n",
      "!", "[", "[", "c", "a", "t", ".", "p", "n", "g", "]", "]">>

(***************************************************************************)
(* Blocks of indented references, for the round trip.                      *)
(***************************************************************************)
\* most lines of such a file
MaxBlock == 3

Indentations == {<<>>, <<"\t">>}

ReferencePool == {
    <<"!", "[", "[", "a", "]", "]">>,
    <<"!", "[", "x", "]", "(", "b", ")">>,
    <<"!", "[", "[", "c", "]", "]", "|", "1">>
}

TrailingPool == {<<>>, <<" ">>}

BlockLines ==
    {ind \o ref \o trail : ind \in Indentations, ref \in ReferencePool, trail \in TrailingPool}
       \cup {<<"t">>}

BlockDocuments ==
    UNION {{Join(ls, <<"\n">>) : ls \in [1..n -> BlockLines]} : n \in 1..MaxBlock}

(***************************************************************************)
(* The event handlers of registerEvents and the settings tab.              *)
(***************************************************************************)
\* the characters that separate the tokens of a class attribute
AsciiWhitespace == {" ", "\t", "\n", "\r", "\f"}

\* Element.hasClass: name is one of the white-space separated tokens of cls
HasClass(cls, name) ==
    \E i \in 1..Len(cls) :
        /\ i + Len(name) - 1 <= Len(cls)
        /\ SubSeq(cls, i, i + Len(name) - 1) = name
        /\ i = 1 \/ cls[i - 1] \in AsciiWhitespace
        /\ i + Len(name) - 1 = Len(cls) \/ cls[i + Len(name)] \in AsciiWhitespace

\* the listener map after currentWindow.addEventListener(wheel, preventDefault)
DisableScroll(currentWindow) == [scrollDisabled EXCEPT ![currentWindow] = TRUE]

\* the listener map after currentWindow.removeEventListener(wheel, preventDefault)
EnableScroll(currentWindow) == [scrollDisabled EXCEPT ![currentWindow] = FALSE]

\* a reset that clears the flag and leaves the wheel listener in place
OnConfigKeyUpFlagOnly(currentWindow) ==
    /\ isKeyHeldDown' = FALSE
    /\ scrollDisabled' = scrollDisabled

OnConfigKeyUp(currentWindow) ==
    /\ isKeyHeldDown' = FALSE
    /\ scrollDisabled' = EnableScroll(currentWindow)

\* a check that takes any modifier flag of the event for the configured one
IsConfiguredKeyDownAnyFlag(evt) == evt.altKey \/ evt.ctrlKey \/ evt.shiftKey

IsConfiguredKeyDown(evt) ==
    IF settings.modifierKey \in {ALT, ALT_RIGHT} THEN evt.altKey
    ELSE IF settings.modifierKey \in {CTRL, CTRL_RIGHT} THEN evt.ctrlKey
    ELSE evt.shiftKey

\* what handleStack and the vault hold
stackVars == <<fileText, target, prevText, searchString, outcome, otherText, prevOther,
               pending, applied, retried>>

\* the keydown listener of currentWindow's document, registered while the
\* plugin is loaded; key events reach the window that has the focus
KeyDown(currentWindow, code) ==
    /\ loaded
    /\ focused = currentWindow
    /\ lastEvent' = [type |-> "keydown", win |-> currentWindow, code |-> code]
    /\ IF code = settings.modifierKey
       THEN LET isActiveViewCanvas == activeView = "canvas"
            IN  IF isActiveViewCanvas /\ ~settings.resizeInCanvas
                THEN UNCHANGED <<isKeyHeldDown, scrollDisabled>>
                ELSE /\ isKeyHeldDown' = TRUE
                     /\ scrollDisabled' = IF settings.modifierKey \notin {SHIFT, SHIFT_RIGHT}
                                          THEN DisableScroll(currentWindow)
                                          ELSE scrollDisabled
       ELSE UNCHANGED <<isKeyHeldDown, scrollDisabled>>
    /\ UNCHANGED <<settings, activeView, focused, nodeWidth, elements>>
    /\ UNCHANGED <<stackVars, loaded>>

\* the keyup listener of currentWindow's document
KeyUp(currentWindow, code) ==
    /\ loaded
    /\ focused = currentWindow
    /\ lastEvent' = [type |-> "keyup", win |-> currentWindow, code |-> code]
    /\ IF code = settings.modifierKey
       THEN OnConfigKeyUp(currentWindow)
       ELSE UNCHANGED <<isKeyHeldDown, scrollDisabled>>
    /\ UNCHANGED <<settings, activeView, focused, nodeWidth, elements>>
    /\ UNCHANGED <<stackVars, loaded>>

\* the blur listener of currentWindow; the focus goes to next, another window
\* of the application or "none" of them
Blur(currentWindow, next) ==
    /\ loaded
    /\ focused = currentWindow
    /\ next # currentWindow
    /\ focused' = next
    /\ lastEvent' = [type |-> "blur", win |-> currentWindow]
    /\ isKeyHeldDown' = FALSE
    /\ scrollDisabled' = EnableScroll(currentWindow)
    /\ UNCHANGED <<settings, activeView, nodeWidth, elements>>
    /\ UNCHANGED <<stackVars, loaded>>

\* onunload(currentWindow = window), called by the host without an argument
\* when the plugin is disabled: the wheel listener of the main window goes,
\* the flag stays, and the host removes the listeners of registerDomEvent
OnUnload ==
    /\ loaded
    /\ loaded' = FALSE
    /\ scrollDisabled' = EnableScroll("main")
    /\ lastEvent' = [type |-> "unload"]
    /\ UNCHANGED <<isKeyHeldDown, settings, activeView, focused, nodeWidth, elements>>
    /\ UNCHANGED stackVars

\* the application gets the focus back in window w; no listener of the plugin
Focus(w) ==
    /\ focused = "none"
    /\ focused' = w
    /\ lastEvent' = NoEvent
    /\ UNCHANGED <<isKeyHeldDown, scrollDisabled, settings, activeView, nodeWidth, elements>>
    /\ UNCHANGED <<stackVars, loaded>>

\* the user makes another view the active one
SwitchView(viewType) ==
    /\ viewType # activeView
    /\ activeView' = viewType
    /\ lastEvent' = NoEvent
    /\ UNCHANGED <<isKeyHeldDown, scrollDisabled, settings, focused, nodeWidth, elements>>
    /\ UNCHANGED <<stackVars, loaded>>

\* onChange of the Trigger Key dropdown
ChangeModifierKey(value) ==
    /\ loaded
    /\ value # settings.modifierKey
    /\ settings' = [settings EXCEPT !.modifierKey = value]
    /\ lastEvent' = NoEvent
    /\ UNCHANGED <<isKeyHeldDown, scrollDisabled, activeView, focused, nodeWidth, elements>>
    /\ UNCHANGED <<stackVars, loaded>>

\* onChange of the Step size slider
ChangeStepSize(value) ==
    /\ loaded
    /\ value # settings.stepSize
    /\ settings' = [settings EXCEPT !.stepSize = value]
    /\ lastEvent' = NoEvent
    /\ UNCHANGED <<isKeyHeldDown, scrollDisabled, activeView, focused, nodeWidth, elements>>
    /\ UNCHANGED <<stackVars, loaded>>

\* onChange of the Initial Size slider
ChangeInitialSize(value) ==
    /\ loaded
    /\ value # settings.initialSize
    /\ settings' = [settings EXCEPT !.initialSize = value]
    /\ lastEvent' = NoEvent
    /\ UNCHANGED <<isKeyHeldDown, scrollDisabled, activeView, focused, nodeWidth, elements>>
    /\ UNCHANGED <<stackVars, loaded>>

\* onChange of the Resize in canvas toggle
ChangeResizeInCanvas(value) ==
    /\ loaded
    /\ value # settings.resizeInCanvas
    /\ settings' = [settings EXCEPT !.resizeInCanvas = value]
    /\ lastEvent' = NoEvent
    /\ UNCHANGED <<isKeyHeldDown, scrollDisabled, activeView, focused, nodeWidth, elements>>
    /\ UNCHANGED <<stackVars, loaded>>

(***************************************************************************)
(* handleZoomForCanvas, and handleStack as the steps it runs in:           *)
(* the call up to vault.process, and the transform run by the vault.       *)
(***************************************************************************)
\* widest canvas node
MaxWidth == 100

\* most handleStack calls that reach vault.process
MaxStacks == 2

\* a delta that grows the node when the wheel turns up
DeltaInverted(evt) ==
    IF evt.deltaY > 0 THEN settings.stepSize * (-1) ELSE settings.stepSize

\* let delta = evt.deltaY > 0 ? stepSize : stepSize * -1
Delta(evt) ==
    IF evt.deltaY > 0 THEN settings.stepSize ELSE settings.stepSize * (-1)

\* handleZoomForCanvas; it throws, and resizes nothing, when the active view
\* is no canvas or none of its nodes has the target as its content blocker
HandleZoomForCanvas(evt, eventTarget) ==
    LET isCanvas == activeView = "canvas"
    IN  IF ~isCanvas
        THEN UNCHANGED nodeWidth
        ELSE IF ~elements[eventTarget].isContentBlockerEl
        THEN UNCHANGED nodeWidth
        ELSE LET newWidth == nodeWidth + Delta(evt)
             IN  /\ newWidth \in 1..MaxWidth
                 /\ nodeWidth' = newWidth

\* a promise that has not been settled
Unsettled == [state |-> "pending"]

\* a promise whose every resolve and reject call takes effect
SettleOverwrite(promise, settlement) == settlement

\* resolve(..) or reject(..) on a promise: only the first call settles it
Settle(promise, settlement) == IF promise = Unsettled THEN settlement ELSE promise

\* iterateAllLeaves with the callback of getActivePaneWithImage
RECURSIVE IterateAllLeaves(_, _)
IterateAllLeaves(leaves, promise) ==
    IF leaves = <<>> THEN promise
    ELSE LET leaf == Head(leaves)
         IN  IterateAllLeaves(Tail(leaves),
                 IF leaf.containsImage /\ leaf.isMarkdownView
                 THEN Settle(promise, [state |-> "fulfilled", value |-> leaf.file])
                 ELSE promise)

\* getActivePaneWithImage, for the leaves of the workspace in iteration order
GetActivePaneWithImage(leaves) ==
    Settle(IterateAllLeaves(leaves, Unsettled),
           [state |-> "rejected", value |-> "No file belonging to the image found"])

\* the text the vault holds for file
FileTextOf(file) == IF file = "F1" THEN fileText ELSE otherText

\* handleStack up to the call of vault.process: the src attribute is read,
\* the file is found, and the call waits for the vault
HandleStackBegin(eventTarget, leaves) ==
    LET imageUri == elements[eventTarget].src
        activeFile == GetActivePaneWithImage(leaves)
    IN  IF imageUri = Null
        THEN /\ outcome' = "TypeError"
             /\ prevText' = fileText
             /\ prevOther' = otherText
             /\ UNCHANGED <<fileText, otherText, target, searchString, pending, applied, retried>>
        ELSE IF activeFile.state = "rejected"
        THEN /\ outcome' = activeFile.value
             /\ prevText' = fileText
             /\ prevOther' = otherText
             /\ UNCHANGED <<fileText, otherText, target, searchString, pending, applied, retried>>
        ELSE /\ Len(pending) + Len(applied) < MaxStacks
             /\ pending' = Append(pending, [imageUri |-> imageUri, eventTarget |-> eventTarget,
                                            activeFile |-> activeFile.value, first |-> None])
             /\ UNCHANGED <<fileText, otherText, target, prevText, prevOther, searchString,
                            outcome, applied, retried>>

\* the wheel listener of currentWindow's document; wheel events reach the
\* window under the pointer, focused or not
Wheel(currentWindow, evt) ==
    /\ loaded
    /\ lastEvent' = evt
    /\ evt.win = currentWindow
    /\ UNCHANGED <<settings, activeView, focused, elements, loaded>>
    /\ IF ~isKeyHeldDown
       THEN /\ UNCHANGED <<isKeyHeldDown, scrollDisabled, nodeWidth>>
            /\ UNCHANGED stackVars
       ELSE IF ~IsConfiguredKeyDown(evt)
       THEN /\ OnConfigKeyUp(currentWindow)
            /\ UNCHANGED nodeWidth
            /\ UNCHANGED stackVars
       ELSE LET eventTarget == evt.target
                targetIsCanvas ==
                    HasClass(elements[eventTarget].cls, <<"c", "a", "n", "v", "a", "s", "-", "n", "o", "d", "e", "-", "c", "o", "n", "t", "e", "n", "t", "-", "b", "l", "o", "c", "k", "e", "r">>)
                targetIsCanvasNode == elements[eventTarget].inCanvasNodeContent
                targetIsImage == elements[eventTarget].nodeName = "IMG"
            IN  /\ UNCHANGED isKeyHeldDown
                /\ scrollDisabled' = IF targetIsCanvas \/ targetIsCanvasNode \/ targetIsImage
                                     THEN DisableScroll(currentWindow)
                                     ELSE scrollDisabled
                /\ IF targetIsCanvas /\ settings.resizeInCanvas
                   THEN /\ HandleZoomForCanvas(evt, eventTarget)
                        /\ UNCHANGED stackVars
                   ELSE IF targetIsCanvasNode
                   THEN /\ UNCHANGED nodeWidth
                        /\ UNCHANGED stackVars
                   ELSE IF targetIsImage
                   THEN /\ HandleStackBegin(eventTarget, evt.leaves)
                        /\ UNCHANGED nodeWidth
                   ELSE /\ UNCHANGED nodeWidth
                        /\ UNCHANGED stackVars

\* a text read from a copy that is one handleStack step behind the file
TransformInputStale(call) == IF call.activeFile = "F1" THEN prevText ELSE prevOther

\* the text vault.process hands to the transform of call: the file's current text
TransformInput(call) == FileTextOf(call.activeFile)

\* the key the transform of call searches for: getSearchStringForImage with the
\* src read when handleStack began and the element as it is now
SearchStringOf(call) == GetSearchStringForImage(call.imageUri, elements[call.eventTarget])

\* the transform of call on text: the new text, or the error it throws
TransformOf(call, text) ==
    LET key == SearchStringOf(call)
    IN  IF key = TypeError THEN TypeError ELSE StackTransform(text, key)

\* seq without its i-th element
RemoveAt(seq, i) == SubSeq(seq, 1, i - 1) \o SubSeq(seq, i + 1, Len(seq))

\* vault.process for the i-th waiting call: the vault runs the transform on
\* the file's text and writes what it returns; an error leaves the file alone
VaultProcess(i) ==
    LET call == pending[i]
        text == TransformInput(call)
        result == TransformOf(call, text)
    IN  /\ pending' = RemoveAt(pending, i)
        /\ target' = [src |-> call.imageUri, cls |-> elements[call.eventTarget].cls,
                      filesource |-> elements[call.eventTarget].filesource]
        /\ prevText' = fileText
        /\ prevOther' = otherText
        /\ retried' = IF call.first = None THEN None
                      ELSE [state |-> "twice", first |-> call.first,
                            second |-> [text |-> text, result |-> result]]
        /\ IF result = TypeError
           THEN /\ outcome' = "TypeError"
                /\ UNCHANGED <<fileText, otherText, searchString, applied>>
           ELSE /\ outcome' = "ok"
                /\ searchString' = SearchStringOf(call)
                /\ fileText' = IF call.activeFile = "F1" THEN result ELSE fileText
                /\ otherText' = IF call.activeFile = "F2" THEN result ELSE otherText
                /\ applied' = Append(applied, [file |-> call.activeFile,
                                               searchString |-> SearchStringOf(call)])
        /\ lastEvent' = NoEvent
        /\ UNCHANGED <<isKeyHeldDown, scrollDisabled, settings, activeView, focused, nodeWidth,
                       elements, loaded>>

\* the vault runs the transform of the i-th waiting call, finds that the file
\* was written meanwhile, drops the result and will run the transform again
WriteConflict(i) ==
    LET call == pending[i]
        text == TransformInput(call)
    IN  /\ call.first = None
        /\ pending' = [pending EXCEPT ![i].first = [text |-> text,
                                                     result |-> TransformOf(call, text)]]
        /\ lastEvent' = NoEvent
        /\ UNCHANGED <<fileText, target, prevText, searchString, outcome, otherText, prevOther,
                       applied, retried>>
        /\ UNCHANGED <<isKeyHeldDown, scrollDisabled, settings, activeView, focused, nodeWidth,
                       elements, loaded>>

\* the page sets attribute name ("cls" for class) of element el to value
SetAttribute(el, name, value) ==
    /\ elements[el][name] # value
    /\ elements' = [elements EXCEPT ![el][name] = value]
    /\ lastEvent' = NoEvent
    /\ UNCHANGED <<isKeyHeldDown, scrollDisabled, settings, activeView, focused, nodeWidth>>
    /\ UNCHANGED <<stackVars, loaded>>

(***************************************************************************)
(* Keys, wheel events and focus: the plugin over two windows on a note.    *)
(***************************************************************************)
\* the values the Trigger Key dropdown is moved to
TriggerKeys == {ALT, SHIFT}

\* KeyboardEvent.code of the keys pressed: those two and a letter key
Codes == TriggerKeys \cup {"KeyA"}

\* the modifier flags of a wheel event: none, Alt, Shift
ModifierFlags == {
    [altKey |-> FALSE, ctrlKey |-> FALSE, shiftKey |-> FALSE],
    [altKey |-> TRUE, ctrlKey |-> FALSE, shiftKey |-> FALSE],
    [altKey |-> FALSE, ctrlKey |-> FALSE, shiftKey |-> TRUE]
}

\* one note pane, showing F1, holds the image
NoteLeaves == <<[containsImage |-> TRUE, isMarkdownView |-> TRUE, file |-> "F1"]>>

\* a wheel event
WheelEvent(w, flags, deltaY, el, leaves) ==
    [type |-> "wheel", win |-> w, altKey |-> flags.altKey, ctrlKey |-> flags.ctrlKey,
     shiftKey |-> flags.shiftKey, deltaY |-> deltaY, target |-> el, leaves |-> leaves]

\* wheel ticks in either window over an image of the note, an image inside a
\* canvas node, an image with the blocker class, and a paragraph
KeysWheels ==
    {WheelEvent(w, f, 100, el, NoteLeaves) :
        w \in Windows, f \in ModifierFlags, el \in {"img", "nodeImg", "blockerImg", "p"}}

\* ![[a]] and ![x](b) on two lines
EventsDocument == <<"!", "[", "[", "a", "]", "]", "\n", "!", "[", "x", "]", "(", "b", ")">>

InitKeys ==
    /\ fileText = EventsDocument
    /\ target = NoTarget
    /\ prevText = fileText
    /\ searchString = <<>>
    /\ outcome = "none"
    /\ Loaded

NextKeys ==
    \/ \E w \in Windows, code \in Codes : KeyDown(w, code)
    \/ \E w \in Windows, code \in Codes : KeyUp(w, code)
    \/ \E evt \in KeysWheels : Wheel(evt.win, evt)
    \/ \E w \in Windows, next \in Windows \cup {"none"} : Blur(w, next)
    \/ \E w \in Windows : Focus(w)
    \/ \E value \in TriggerKeys : ChangeModifierKey(value)
    \/ \E value \in BOOLEAN : ChangeResizeInCanvas(value)
    \/ \E i \in 1..Len(pending) : VaultProcess(i)
    \/ OnUnload

SpecKeys == InitKeys /\ [][NextKeys]_vars

(***************************************************************************)
(* The canvas: one window, the Alt key, a canvas beside the note.          *)
(***************************************************************************)
\* WheelEvent.deltaY: a tick down, a horizontal tick, a tick up
DeltaYs == {100, 0, -100}

\* the values the Step size slider is moved to
StepSizes == {25, 50}

\* the values the Initial Size slider is moved to
InitialSizes == {500, 525}

\* the view types the active view has
ViewTypes == {"markdown", "canvas"}

\* wheel ticks in the main window, with and without Alt, over the content
\* blocker of the canvas node, an image with the blocker class and an image
\* inside the node
CanvasWheels ==
    {WheelEvent("main", f, d, el, NoteLeaves) :
        f \in {g \in ModifierFlags : ~g.shiftKey}, d \in DeltaYs,
        el \in {"blocker", "blockerImg", "nodeImg"}}

NextCanvas ==
    \/ \E code \in {ALT, "KeyA"} : KeyDown("main", code)
    \/ \E code \in {ALT, "KeyA"} : KeyUp("main", code)
    \/ \E evt \in CanvasWheels : Wheel(evt.win, evt)
    \/ \E viewType \in ViewTypes : SwitchView(viewType)
    \/ \E value \in StepSizes : ChangeStepSize(value)
    \/ \E value \in InitialSizes : ChangeInitialSize(value)
    \/ \E value \in BOOLEAN : ChangeResizeInCanvas(value)
    \/ \E i \in 1..Len(pending) : VaultProcess(i)

SpecCanvas == InitKeys /\ [][NextCanvas]_vars

(***************************************************************************)
(* The vault: handleStack calls that overlap, over changing panes and      *)
(* attributes, while Alt is held in the main window.                       *)
(***************************************************************************)
\* the leaves of the workspace at a wheel event, in iteration order: a note
\* without the image and a pane with it that is no markdown view; a pane with
\* the image that is no markdown view before the note with it; two notes that
\* both hold the image
LeavesPool == {
    <<[containsImage |-> FALSE, isMarkdownView |-> TRUE, file |-> "F1"],
      [containsImage |-> TRUE, isMarkdownView |-> FALSE, file |-> "F2"]>>,
    <<[containsImage |-> TRUE, isMarkdownView |-> FALSE, file |-> "F2"],
      [containsImage |-> TRUE, isMarkdownView |-> TRUE, file |-> "F1"]>>,
    <<[containsImage |-> TRUE, isMarkdownView |-> TRUE, file |-> "F2"],
      [containsImage |-> TRUE, isMarkdownView |-> TRUE, file |-> "F1"]>>
}

\* wheel ticks with Alt in the main window: over the image of the note under
\* each of these leaves, over the excalidraw embed and over the image without
\* src in a single note
VaultWheels ==
    {WheelEvent("main", [altKey |-> TRUE, ctrlKey |-> FALSE, shiftKey |-> FALSE], 100, "img", ls) :
        ls \in LeavesPool}
      \cup {WheelEvent("main", [altKey |-> TRUE, ctrlKey |-> FALSE, shiftKey |-> FALSE], 100,
                       el, NoteLeaves) : el \in {"svg", "nosrc"}}

\* the page removes the class of the embed, or its filesource attribute
AttributePool == {<<"cls", <<>>>>, <<"filesource", Null>>}

\* two blocks: ![[a]] and ![x](b), then after a separator ![[c]] and ![[d]]
VaultDocument == <<"!", "[", "[", "a", "]", "]", "\n", "!", "[", "x", "]", "(", "b", ")", "\n", "-", "\n", "!", "[", "[", "c", "]", "]", "\n", "!", "[", "[", "d", "]", "]">>

\* the state after Alt went down in the main window
InitVault ==
    /\ fileText = VaultDocument
    /\ target = NoTarget
    /\ prevText = fileText
    /\ searchString = <<>>
    /\ outcome = "none"
    /\ isKeyHeldDown = TRUE
    /\ scrollDisabled = [w \in Windows |-> w = "main"]
    /\ settings = DEFAULT_SETTINGS
    /\ activeView = "markdown"
    /\ focused = "main"
    /\ nodeWidth \in NodeWidths
    /\ elements = DomElements
    /\ otherText = OtherDocument
    /\ prevOther = otherText
    /\ pending = <<>>
    /\ applied = <<>>
    /\ retried = None
    /\ lastEvent = [type |-> "keydown", win |-> "main", code |-> ALT]
    /\ loaded = TRUE

NextVault ==
    \/ \E evt \in VaultWheels : Wheel(evt.win, evt)
    \/ \E i \in 1..Len(pending) : VaultProcess(i)
    \/ \E i \in 1..Len(pending) : WriteConflict(i)
    \/ \E a \in AttributePool : SetAttribute("svg", a[1], a[2])

SpecVault == InitVault /\ [][NextVault]_vars

(***************************************************************************)
(* The first wheel tick over a vault file, with Alt held in the main       *)
(* window: the wheel listener starts handleStack, the vault runs the       *)
(* transform.                                                              *)
(***************************************************************************)
\* the elements of the page when the image of the note carries the attributes of t
WithImage(t) ==
    [DomElements EXCEPT !.img = [@ EXCEPT !.src = t.src, !.cls = t.cls,
                                          !.filesource = t.filesource]]

\* the state after Alt went down in the main window, over a note whose image
\* is one of targets
HeldOver(targets) ==
    /\ target = NoTarget
    /\ prevText = fileText
    /\ searchString = <<>>
    /\ outcome = "none"
    /\ isKeyHeldDown = TRUE
    /\ scrollDisabled = [w \in Windows |-> w = "main"]
    /\ settings = DEFAULT_SETTINGS
    /\ activeView = "markdown"
    /\ focused = "main"
    /\ nodeWidth \in NodeWidths
    /\ elements \in {WithImage(t) : t \in targets}
    /\ otherText = OtherDocument
    /\ prevOther = otherText
    /\ pending = <<>>
    /\ applied = <<>>
    /\ retried = None
    /\ lastEvent = [type |-> "keydown", win |-> "main", code |-> ALT]
    /\ loaded = TRUE

\* a wheel tick with Alt in the main window over the image of the note
StackWheel ==
    WheelEvent("main", [altKey |-> TRUE, ctrlKey |-> FALSE, shiftKey |-> FALSE], 100, "img",
               NoteLeaves)

Init ==
    /\ fileText \in Documents
    /\ HeldOver(WheelTargets)

\* the wheel listener on the first tick over the file, then the vault
Next ==
    \/ /\ pending = <<>>
       /\ applied = <<>>
       /\ Wheel("main", StackWheel)
    \/ \E i \in 1..Len(pending) : VaultProcess(i)

Spec == Init /\ [][Next]_vars

InitKey ==
    /\ fileText = ResolverDocument
    /\ HeldOver(ResolverTargets)

SpecKey == InitKey /\ [][Next]_vars

InitRoundTrip ==
    /\ fileText \in BlockDocuments
    /\ HeldOver(WheelTargets)

SpecRoundTrip == InitRoundTrip /\ [][Next]_vars

(***************************************************************************)
(* Vocabulary of the properties: the last invocation, read from the state. *)
(***************************************************************************)
\* the lines the last transform worked on
InLines == Split(Body(prevText))

\* the text that follows the input's frontmatter in the output
OutBody == Slice(fileText, Len(Frontmatter(prevText)) + 1)

\* s cut at every line feed, the line break the transform writes
RECURSIVE SplitLF(_)
SplitLF(s) ==
    LET n == FirstIndexOf(s, "\n", 1)
    IN  IF n = 0 THEN <<s>> ELSE <<SubSeq(s, 1, n - 1)>> \o SplitLF(Slice(s, n + 1))

\* line i (0-based) of ls is a qualifying image line that contains key
Qualifies(ls, i, key) == Includes(ls[i + 1], key) /\ IsImageLine(ls[i + 1])

\* some line of ls qualifies for key
SomeQualifies(ls, key) == \E i \in 0..(Len(ls) - 1) : Qualifies(ls, i, key)

\* the last handleStack ran its transform and found a line
Matched == outcome = "ok" /\ SomeQualifies(InLines, searchString)

\* the block the last transform located
BlockStart == ExpandStart(InLines, FindIndex(InLines, searchString))

BlockEnd == ExpandEnd(InLines, FindIndex(InLines, searchString))

\* the trimmed lines from..to (0-based) of ls, joined by single spaces
RECURSIVE JoinTrimmed(_, _, _)
JoinTrimmed(ls, from, to) ==
    IF from > to THEN <<>>
    ELSE IF from = to THEN Trim(ls[from + 1])
    ELSE Trim(ls[from + 1]) \o <<" ">> \o JoinTrimmed(ls, from + 1, to)

\* the line has no letter or digit of the model's alphabet: blank or punctuation only
Ignorable(line) == \A i \in 1..Len(line) : line[i] \in Whitespace \cup {"-"}

\* the number of line feeds of s
LineFeeds(s) == Cardinality({i \in 1..Len(s) : s[i] = "\n"})

\* the wheel target t resolves to a key
Resolves(t) == t.src # Null /\ GetSearchStringForImage(t.src, t) # TypeError

(***************************************************************************)
(* C1  Stack transform result.  When the key matches a qualifying image    *)
(* line and the located block is [start, end], the body written after the  *)
(* frontmatter, cut at its line feeds, is: the input lines before start,   *)
(* then one line that is the single-space join of the trimmed lines        *)
(* start..end, then the input lines after end; it has (end - start) fewer  *)
(* lines than the input.                                                   *)
(***************************************************************************)
C1_StackResult ==
    outcome = "ok" =>
        LET ls == InLines
            i == FindIndex(ls, searchString)
            start == ExpandStart(ls, i)
            end == ExpandEnd(ls, i)
            out == SplitLF(OutBody)
        IN  SomeQualifies(ls, searchString) =>
                /\ out = SubSeq(ls, 1, start) \o <<JoinTrimmed(ls, start, end)>>
                            \o Slice(ls, end + 2)
                /\ Len(out) = Len(ls) - (end - start)

\* a block of two lines was merged between a line before and a line after it
C1_Witness ==
    /\ Matched
    /\ BlockEnd > BlockStart
    /\ BlockStart > 0
    /\ BlockEnd < Len(InLines) - 1
    /\ fileText # prevText

(***************************************************************************)
(* C2  Block location, strict variant.  The located range [start, end]     *)
(* contains the matched index, holds qualifying image lines only, and is   *)
(* maximal: the line before start and the line after end, when there is    *)
(* one, is not an image line.  A blank or punctuation-only line is never   *)
(* inside the block.                                                       *)
(***************************************************************************)
C2_BlockMaximal ==
    outcome = "ok" =>
        LET ls == InLines
            i == FindIndex(ls, searchString)
            start == ExpandStart(ls, i)
            end == ExpandEnd(ls, i)
        IN  SomeQualifies(ls, searchString) =>
                /\ 0 <= start /\ start <= i
                /\ i <= end /\ end <= Len(ls) - 1
                /\ \A j \in start..end : IsImageLine(ls[j + 1]) /\ ~Ignorable(ls[j + 1])
                /\ start = 0 \/ ~IsImageLine(ls[start])
                /\ end = Len(ls) - 1 \/ ~IsImageLine(ls[end + 2])

\* the expansion stopped at a blank or punctuation-only line that has an image
\* line on its far side
C2_Witness ==
    /\ Matched
    /\ BlockEnd + 2 < Len(InLines)
    /\ Ignorable(InLines[BlockEnd + 2])
    /\ IsImageLine(InLines[BlockEnd + 3])

(***************************************************************************)
(* C3  Frontmatter preservation.  When the text handed to the transform    *)
(* starts with a frontmatter block, the text it returns starts with the    *)
(* same characters, whatever happens in the body; the lines of the block   *)
(* are not searched and not merged: a key that qualifies in the            *)
(* frontmatter only changes nothing, and the text loses exactly the line   *)
(* breaks of the block located in the body.                                *)
(***************************************************************************)
C3_FrontmatterKept ==
    outcome = "ok" =>
        LET fm == Frontmatter(prevText)
            ls == InLines
            i == FindIndex(ls, searchString)
        IN  fm # <<>> =>
                /\ StartsWith(fileText, fm)
                /\ ~SomeQualifies(ls, searchString) => fileText = prevText
                /\ SomeQualifies(ls, searchString) =>
                       LineFeeds(prevText) - LineFeeds(fileText)
                          = ExpandEnd(ls, i) - ExpandStart(ls, i)

\* the frontmatter holds a qualifying line with the key, and the body was changed
C3_Witness ==
    /\ Matched
    /\ Frontmatter(prevText) # <<>>
    /\ Includes(Frontmatter(prevText), <<"!", "[", "[">> \o searchString \o <<"]", "]", "\n">>)
    /\ searchString # <<>>
    /\ fileText # prevText

(***************************************************************************)
(* C4  No matching block is a no-op.  When the key was resolved and no     *)
(* body line both contains it and is a qualifying image line, the          *)
(* transform returns the text it was given and nothing is thrown.          *)
(***************************************************************************)
C4_NoMatchNoOp ==
    (outcome # "none" /\ Resolves(target)
       /\ ~SomeQualifies(InLines, GetSearchStringForImage(target.src, target))) =>
        /\ outcome = "ok"
        /\ fileText = prevText

\* the key occurs in the body, on a line that is not an image line, next to an
\* image line without the key
C4_Witness ==
    /\ outcome = "ok"
    /\ ~Matched
    /\ searchString # <<>>
    /\ \E i \in 1..(Len(InLines) - 1) :
           /\ Includes(InLines[i], searchString)
           /\ ~IsImageLine(InLines[i])
           /\ IsImageLine(InLines[i + 1])

(***************************************************************************)
(* C5  First match wins.  The block is grown around the lowest-index line  *)
(* that contains the key and is an image line; a qualifying line with the  *)
(* key outside that block is left as it was, and a lower line that         *)
(* contains the key without being an image line is not chosen.             *)
(***************************************************************************)
C5_FirstMatchWins ==
    outcome = "ok" =>
        LET ls == InLines
            i == FindIndex(ls, searchString)
            shift == ExpandEnd(ls, i) - ExpandStart(ls, i)
            out == SplitLF(OutBody)
        IN  SomeQualifies(ls, searchString) =>
                /\ Qualifies(ls, i, searchString)
                /\ \A j \in 0..(i - 1) : ~Qualifies(ls, j, searchString)
                /\ \A j \in (ExpandEnd(ls, i) + 1)..(Len(ls) - 1) :
                       /\ j - shift + 1 <= Len(out)
                       /\ out[j - shift + 1] = ls[j + 1]

\* a second qualifying line with the key lies beyond the block, and a line with
\* the key that is no image line lies before the matched one
C5_Witness ==
    /\ Matched
    /\ searchString # <<>>
    /\ \E j \in (BlockEnd + 2)..(Len(InLines) - 1) : Qualifies(InLines, j, searchString)
    /\ \E j \in 0..(BlockStart - 1) :
           Includes(InLines[j + 1], searchString) /\ ~IsImageLine(InLines[j + 1])

(***************************************************************************)
(* C7  Stacking a single standalone image line is idempotent.  When the    *)
(* located block is exactly one image line, the output body is the input   *)
(* body with that line replaced by the reference alone, and the transform  *)
(* applied again with the same key to that output returns it unchanged.    *)
(***************************************************************************)
\* ls with line i (0-based) replaced by its trimmed form
WithTrimmed(ls, i) == [j \in 1..Len(ls) |-> IF j = i + 1 THEN Trim(ls[j]) ELSE ls[j]]

C7_SingleLineIdempotent ==
    outcome = "ok" =>
        LET ls == InLines
            i == FindIndex(ls, searchString)
        IN  (searchString # <<>> /\ SomeQualifies(ls, searchString)
               /\ ExpandStart(ls, i) = ExpandEnd(ls, i)) =>
                /\ SplitLF(OutBody) = WithTrimmed(ls, i)
                /\ StackTransform(fileText, searchString) = fileText

(***************************************************************************)
(* C8  (as claimed) When the matched line has no qualifying image line     *)
(* directly above or below it, the transform returns its input unchanged,  *)
(* also when the matched line carries leading or trailing whitespace.      *)
(***************************************************************************)
C8_LoneLineUnchanged ==
    outcome = "ok" =>
        LET ls == InLines
            i == FindIndex(ls, searchString)
        IN  (searchString # <<>> /\ SomeQualifies(ls, searchString)
               /\ ExpandStart(ls, i) = ExpandEnd(ls, i)) =>
                fileText = prevText

(***************************************************************************)
(* C8  (amended) When the matched line has no qualifying image line        *)
(* directly above or below it, the transform returns the frontmatter       *)
(* followed by the body lines joined by line feeds, the matched line       *)
(* replaced by its trimmed form; that is the input itself exactly when the *)
(* matched line has no leading or trailing whitespace and no line break of *)
(* the body is a carriage return and line feed.                            *)
(***************************************************************************)
C8_LoneLineTrimmed ==
    outcome = "ok" =>
        LET ls == InLines
            i == FindIndex(ls, searchString)
        IN  (SomeQualifies(ls, searchString) /\ ExpandStart(ls, i) = ExpandEnd(ls, i)) =>
                /\ fileText = Frontmatter(prevText) \o Join(WithTrimmed(ls, i), <<"\n">>)
                /\ fileText = prevText <=>
                       /\ Trim(ls[i + 1]) = ls[i + 1]
                       /\ ~Includes(Body(prevText), <<"\r", "\n">>)

\* a lone matched line with surrounding whitespace was rewritten without it
C8_Witness ==
    /\ Matched
    /\ BlockStart = BlockEnd
    /\ Trim(InLines[BlockStart + 1]) # InLines[BlockStart + 1]
    /\ ~Includes(Body(prevText), <<"\r", "\n">>)
    /\ fileText # prevText

(***************************************************************************)
(* C10  Unresolvable reference.  A wheel event over an image whose locator *)
(* is empty makes the stack operation fail with an "unresolvable           *)
(* reference" error instead of matching a line: no line of the document is *)
(* selected or merged, so the file is left as it was.                      *)
(***************************************************************************)
C10_EmptyLocatorSelectsNothing ==
    (outcome # "none" /\ target.src = <<>>) => fileText = prevText

(***************************************************************************)
(* C9  Search-key derivation is one ordered classification.  (1) A locator *)
(* that contains "http" or starts with "data:image/" is the key, whatever  *)
(* the class list; (2) otherwise an excalidraw element yields its          *)
(* filesource without its last 3 characters and without everything up to   *)
(* the last "/"; (3) otherwise a locator that contains "app://" yields the *)
(* bare local file name; (4) otherwise the locator is the key.             *)
(***************************************************************************)
\* key is what follows the last "/" of stem, or stem itself
AfterLastSlash(key, stem) ==
    /\ ~Includes(key, <<"/">>)
    /\ \E n \in 0..Len(stem) :
           /\ stem = SubSeq(stem, 1, n) \o key
           /\ n = 0 \/ stem[n] = "/"

C9_KeyClassification ==
    outcome = "ok" =>
        LET src == target.src
            fs == target.filesource
            key == searchString
        IN  IF Includes(src, <<"h", "t", "t", "p">>)
               \/ StartsWith(src, <<"d", "a", "t", "a", ":", "i", "m", "a", "g", "e", "/">>)
            THEN key = src
            ELSE IF IsExcalidraw(target.cls)
            THEN /\ fs # Null
                 /\ AfterLastSlash(key, SubSeq(fs, 1, Len(fs) - 3))
                 /\ (fs = <<"d", "r", "a", "w", "i", "n", "g", "s", "/", "c", "a", "t", ".",
                            "e", "x", "c", "a", "l", "i", "d", "r", "a", "w", ".", "m", "d">>)
                       => key = <<"c", "a", "t", ".", "e", "x", "c", "a", "l", "i", "d", "r",
                                  "a", "w">>
            ELSE IF Includes(src, <<"a", "p", "p", ":", "/", "/">>)
            THEN /\ key = GetLocalImageNameFromUri(src)
                 /\ ~Includes(key, <<"/">>) /\ ~Includes(key, <<"?">>)
            ELSE key = src

\* a remote image that also carries the excalidraw class and a filesource
C9_Witness ==
    /\ outcome = "ok"
    /\ Includes(target.src, <<"h", "t", "t", "p">>)
    /\ IsExcalidraw(target.cls)
    /\ target.filesource # Null
    /\ searchString = target.src

(***************************************************************************)
(* C6  (as claimed) Round trip.  For a block of N strictly consecutive     *)
(* image lines that all have the same leading indentation, stacking and    *)
(* then unstacking with that indentation gives back the N lines in order.  *)
(***************************************************************************)
C6_RoundTrip ==
    outcome = "ok" =>
        LET ls == InLines
            i == FindIndex(ls, searchString)
            start == ExpandStart(ls, i)
            end == ExpandEnd(ls, i)
            block == SubSeq(ls, start + 1, end + 1)
            ind == LeadingWhitespace(block[1])
        IN  (searchString # <<>> /\ SomeQualifies(ls, searchString)
               /\ \A j \in 1..Len(block) : LeadingWhitespace(block[j]) = ind) =>
                Unstack(SplitLF(OutBody)[start + 1], ind) = block

(***************************************************************************)
(* C6  (amended) Round trip.  For a block of N strictly consecutive image  *)
(* lines that all have the same leading indentation and no trailing        *)
(* whitespace, stacking and then unstacking with that indentation gives    *)
(* back the N lines in order.                                              *)
(***************************************************************************)
C6_RoundTripNoTrailing ==
    outcome = "ok" =>
        LET ls == InLines
            i == FindIndex(ls, searchString)
            start == ExpandStart(ls, i)
            end == ExpandEnd(ls, i)
            block == SubSeq(ls, start + 1, end + 1)
            ind == LeadingWhitespace(block[1])
        IN  (SomeQualifies(ls, searchString)
               /\ \A j \in 1..Len(block) : block[j] = ind \o Trim(block[j])) =>
                Unstack(SplitLF(OutBody)[start + 1], ind) = block

\* three indented lines of different syntax, without trailing whitespace, were
\* stacked
C6_Witness ==
    /\ Matched
    /\ BlockEnd - BlockStart = 2
    /\ LeadingWhitespace(InLines[BlockStart + 1]) # <<>>
    /\ \A j \in BlockStart..BlockEnd :
           InLines[j + 1] = LeadingWhitespace(InLines[BlockStart + 1]) \o Trim(InLines[j + 1])
    /\ \E j \in BlockStart..BlockEnd : MarkdownImagePattern(Trim(InLines[j + 1]))
    /\ \E j \in BlockStart..BlockEnd : ObsidianImagePattern(Trim(InLines[j + 1]))
    /\ fileText # prevText

(***************************************************************************)
(* C16  Repeated stacking is stable: the stack transform applied to its    *)
(* own output with the same search key returns that output unchanged, so a *)
(* further wheel tick over the same image does not change the document     *)
(* again.  Stated for the documents without carriage returns and the       *)
(* non-empty keys, where neither the line-break rewriting of C7 nor the    *)
(* empty key of C10 plays a part.                                          *)
(***************************************************************************)
C16_RepeatedStackStable ==
    (outcome = "ok" /\ searchString # <<>> /\ ~Includes(prevText, <<"\r">>)) =>
        StackTransform(fileText, searchString) = fileText

(***************************************************************************)
(* Vocabulary of the event properties: the event of a step, read from      *)
(* lastEvent in the state the step leads to.                               *)
(***************************************************************************)
\* the modifier flag of wheel event e that belongs to the configured key is set
ConfiguredFlagSet(e) ==
    \/ settings.modifierKey \in {"AltLeft", "AltRight"} /\ e.altKey
    \/ settings.modifierKey \in {"ControlLeft", "ControlRight"} /\ e.ctrlKey
    \/ settings.modifierKey \in {"ShiftLeft", "ShiftRight"} /\ e.shiftKey

\* the target of wheel event e carries the class of a canvas content blocker
OnBlocker(e) == HasClass(elements[e.target].cls, <<"c", "a", "n", "v", "a", "s", "-", "n", "o", "d", "e", "-", "c", "o", "n", "t", "e", "n", "t", "-", "b", "l", "o", "c", "k", "e", "r">>)

\* e is a keydown or keyup of the configured key
ConfiguredKey(e) == e.type \in {"keydown", "keyup"} /\ e.code = settings.modifierKey

\* e is a keydown or keyup of another key
OtherKey(e) == e.type \in {"keydown", "keyup"} /\ e.code # settings.modifierKey

(***************************************************************************)
(* C13  Reset events.  (a) A keyup of the configured key in a window,      *)
(* (b) a blur of a window, and (c) a wheel event that arrives while        *)
(* isKeyHeldDown is true and whose flag for the configured key is not set  *)
(* each lead to isKeyHeldDown false and scrolling enabled in that window;  *)
(* in case (c) no stack and no canvas resize is started.  A keydown or     *)
(* keyup of any other key changes neither the flag nor any window's scroll *)
(* suppression.                                                            *)
(***************************************************************************)
C13_ResetEvents ==
    [][LET e == lastEvent'
       IN  /\ (e.type = "keyup" /\ ConfiguredKey(e)) =>
                  (~isKeyHeldDown' /\ ~scrollDisabled'[e.win])
           /\ e.type = "blur" => (~isKeyHeldDown' /\ ~scrollDisabled'[e.win])
           /\ (e.type = "wheel" /\ isKeyHeldDown /\ ~ConfiguredFlagSet(e)) =>
                  /\ ~isKeyHeldDown' /\ ~scrollDisabled'[e.win]
                  /\ UNCHANGED nodeWidth
                  /\ UNCHANGED stackVars
           /\ OtherKey(e) => UNCHANGED <<isKeyHeldDown, scrollDisabled>>]_vars

\* after a tick with Alt had started a stack, a tick without Alt over the same
\* image reset the flag, freed the window and started no second stack
C13_Witness ==
    /\ lastEvent.type = "wheel"
    /\ lastEvent.target = "img"
    /\ ~ConfiguredFlagSet(lastEvent)
    /\ ~isKeyHeldDown
    /\ ~scrollDisabled[lastEvent.win]
    /\ Len(pending) = 1
    /\ applied = <<>>

(***************************************************************************)
(* C14  Stack trigger guard.  A stack operation is started only by a wheel *)
(* event that arrives while isKeyHeldDown is true, whose modifier flag is  *)
(* set for the currently configured key, and whose target is an IMG        *)
(* element that is neither handled as a canvas blocker with resizeInCanvas *)
(* on nor inside a canvas node content; and the text of a file changes     *)
(* only when the vault runs the transform of a started operation.          *)
(***************************************************************************)
C14_StackTriggerGuard ==
    [][LET e == lastEvent'
       IN  /\ Len(pending') > Len(pending) =>
                  /\ e.type = "wheel"
                  /\ isKeyHeldDown
                  /\ ConfiguredFlagSet(e)
                  /\ elements[e.target].nodeName = "IMG"
                  /\ ~(OnBlocker(e) /\ settings.resizeInCanvas)
                  /\ ~elements[e.target].inCanvasNodeContent
                  /\ pending' = Append(pending, pending'[Len(pending')])
                  /\ pending'[Len(pending')].eventTarget = e.target
           /\ (fileText' # fileText \/ otherText' # otherText) =>
                  /\ e = NoEvent
                  /\ \E i \in 1..Len(pending) : pending' = RemoveAt(pending, i)]_vars

\* with Resize in canvas off, a tick over an image that carries the blocker
\* class started a stack
C14_Witness ==
    /\ lastEvent.type = "wheel"
    /\ lastEvent.target = "blockerImg"
    /\ ~settings.resizeInCanvas
    /\ isKeyHeldDown
    /\ Len(pending) = 1
    /\ pending[1].eventTarget = "blockerImg"
    /\ applied = <<>>

(***************************************************************************)
(* C17  Scroll suppression implies key held: whenever scrolling is         *)
(* suppressed in a window, isKeyHeldDown is true.  Stated for the states   *)
(* that follow a keyup of the configured key, the event that tells the     *)
(* plugin that the key was released.                                       *)
(***************************************************************************)
C17_SuppressedImpliesHeld ==
    (lastEvent.type = "keyup" /\ ConfiguredKey(lastEvent)) =>
        \A w \in Windows : scrollDisabled[w] => isKeyHeldDown

(***************************************************************************)
(* C18  (as claimed) Canvas setting.  While resizeInCanvas is off no step  *)
(* resizes the canvas node, and a keydown of the configured key while the  *)
(* active view is a canvas leaves flag and scroll suppression unchanged.   *)
(* While it is on, a wheel event with the key held on the content blocker  *)
(* of the canvas node resizes the node by +stepSize when deltaY > 0 and by *)
(* -stepSize otherwise, and starts no stack.                               *)
(***************************************************************************)
C18_CanvasResize ==
    [][LET e == lastEvent'
       IN  /\ ~settings.resizeInCanvas => UNCHANGED nodeWidth
           /\ (e.type = "keydown" /\ ConfiguredKey(e) /\ activeView = "canvas"
                 /\ ~settings.resizeInCanvas) =>
                  UNCHANGED <<isKeyHeldDown, scrollDisabled>>
           /\ (e.type = "wheel" /\ isKeyHeldDown /\ ConfiguredFlagSet(e)
                 /\ e.target = "blocker" /\ settings.resizeInCanvas) =>
                  /\ nodeWidth' = nodeWidth + (IF e.deltaY > 0 THEN settings.stepSize
                                                               ELSE 0 - settings.stepSize)
                  /\ UNCHANGED stackVars]_vars

(***************************************************************************)
(* C18  (amended) Canvas setting.  While resizeInCanvas is off no step     *)
(* resizes the canvas node, and a keydown of the configured key while the  *)
(* active view is a canvas leaves flag and scroll suppression unchanged.   *)
(* While it is on, a wheel event with the key held on an element that      *)
(* carries the content blocker class starts no stack; it resizes the node  *)
(* by +stepSize when deltaY > 0 and by -stepSize otherwise when the active *)
(* view is the canvas and the element is the content blocker of its node,  *)
(* and resizes nothing when the active view is not a canvas or the element *)
(* is no node's content blocker.                                           *)
(***************************************************************************)
C18_CanvasResizeActive ==
    [][LET e == lastEvent'
       IN  /\ ~settings.resizeInCanvas => UNCHANGED nodeWidth
           /\ (e.type = "keydown" /\ ConfiguredKey(e) /\ activeView = "canvas"
                 /\ ~settings.resizeInCanvas) =>
                  UNCHANGED <<isKeyHeldDown, scrollDisabled>>
           /\ (e.type = "wheel" /\ isKeyHeldDown /\ ConfiguredFlagSet(e)
                 /\ OnBlocker(e) /\ settings.resizeInCanvas) =>
                  /\ UNCHANGED stackVars
                  /\ IF activeView = "canvas" /\ elements[e.target].isContentBlockerEl
                     THEN nodeWidth' = nodeWidth + (IF e.deltaY > 0 THEN settings.stepSize
                                                                     ELSE 0 - settings.stepSize)
                     ELSE UNCHANGED nodeWidth]_vars

\* a horizontal tick over the content blocker, with Alt held on the active
\* canvas, shrank the node by the step size of 25
C18_Witness ==
    /\ lastEvent.type = "wheel"
    /\ lastEvent.target = "blocker"
    /\ lastEvent.deltaY = 0
    /\ lastEvent.altKey
    /\ isKeyHeldDown
    /\ activeView = "canvas"
    /\ settings.resizeInCanvas
    /\ settings.stepSize = 25
    /\ nodeWidth = 25

(***************************************************************************)
(* Vocabulary of the vault properties.                                     *)
(***************************************************************************)
\* the positions of the leaves that hold the image in a markdown view
HoldingNotes(leaves) ==
    {i \in 1..Len(leaves) : leaves[i].containsImage /\ leaves[i].isMarkdownView}

\* wheel event e reaches the call of handleStack
CallsHandleStack(e) ==
    /\ e.type = "wheel"
    /\ isKeyHeldDown
    /\ ConfiguredFlagSet(e)
    /\ elements[e.target].nodeName = "IMG"
    /\ ~(OnBlocker(e) /\ settings.resizeInCanvas)
    /\ ~elements[e.target].inCanvasNodeContent

\* the transforms of calls, for the file named, run one after another on text
RECURSIVE RunInOrder(_, _, _)
RunInOrder(text, file, calls) ==
    IF calls = <<>> THEN text
    ELSE RunInOrder(IF Head(calls).file = file
                    THEN StackTransform(text, Head(calls).searchString)
                    ELSE text,
                    file, Tail(calls))

(***************************************************************************)
(* C11  Error paths leave the documents untouched.  A step in which        *)
(* handleStack fails (no src attribute, no file found, or an error thrown  *)
(* by the transform) leaves the text of every file as it was.  When no     *)
(* leaf holds the image in a markdown view, getActivePaneWithImage rejects *)
(* with "No file belonging to the image found" and vault.process is not    *)
(* called; when some leaf does, the call goes on with the file of the      *)
(* first such leaf, and the reject that follows has no effect.             *)
(***************************************************************************)
C11_ErrorPathsLeaveText ==
    [][LET e == lastEvent'
           failed == \/ CallsHandleStack(e) /\ Len(pending') = Len(pending)
                     \/ Len(pending') < Len(pending) /\ outcome' = "TypeError"
       IN  /\ failed => (fileText' = fileText /\ otherText' = otherText /\ applied' = applied)
           /\ (CallsHandleStack(e) /\ elements[e.target].src # Null) =>
                  IF HoldingNotes(e.leaves) = {}
                  THEN /\ outcome' = "No file belonging to the image found"
                       /\ pending' = pending
                       /\ applied' = applied
                  ELSE LET first == CHOOSE i \in HoldingNotes(e.leaves) :
                                        \A j \in HoldingNotes(e.leaves) : i <= j
                       IN  /\ Len(pending') = Len(pending) + 1
                           /\ pending'[Len(pending')].activeFile = e.leaves[first].file
                           /\ outcome' = outcome]_vars

\* while a call for the first of two notes that hold the image waits for the
\* vault, a tick over the image found no note with it, and both files are as
\* they were
C11_Witness ==
    /\ lastEvent.type = "wheel"
    /\ HoldingNotes(lastEvent.leaves) = {}
    /\ outcome = "No file belonging to the image found"
    /\ Len(pending) = 1
    /\ pending[1].activeFile = "F2"
    /\ fileText = VaultDocument
    /\ otherText = OtherDocument

(***************************************************************************)
(* C12  The transform handed to the vault is a pure function of the text   *)
(* and of the target as it was at the wheel event: when the vault runs it  *)
(* twice on the same text, both runs give the same result, whatever        *)
(* happened to the element's attributes in between.                        *)
(***************************************************************************)
C12_RetrySameResult ==
    (retried # None /\ retried.first.text = retried.second.text) =>
        retried.first.result = retried.second.result

(***************************************************************************)
(* C15  No lost update under overlapping calls.  Whatever the order in     *)
(* which the calls of handleStack began and the vault ran their            *)
(* transforms, the text of each file is what the transforms the vault has  *)
(* written for it give when run one after another, in that order, on the   *)
(* file's first text; so it is when all calls have completed.              *)
(***************************************************************************)
C15_NoLostUpdate ==
    /\ fileText = RunInOrder(VaultDocument, "F1", applied)
    /\ otherText = RunInOrder(OtherDocument, "F2", applied)

\* two calls for the note overlapped: the vault ran the transform of one on
\* the first text, dropped the result, wrote the other call's merge, and ran
\* the first again on the new text; both blocks are merged
C15_Witness ==
    /\ pending = <<>>
    /\ Len(applied) = 2
    /\ applied[1].file = "F1" /\ applied[2].file = "F1"
    /\ applied[1].searchString # applied[2].searchString
    /\ retried # None
    /\ retried.first.text = VaultDocument
    /\ retried.second.text # VaultDocument
    /\ fileText = <<"!", "[", "[", "a", "]", "]", " ", "!", "[", "x", "]", "(", "b", ")", "\n", "-", "\n", "!", "[", "[", "c", "]", "]", " ", "!", "[", "[", "d", "]", "]">>

====
